---- MODULE Spec2Model ----
(***************************************************************************)
(* HTML tree model of test2.py: HTMLParser builds a tree of node dicts     *)
(* from a parsed document, the module-level helpers format, render and     *)
(* locate nodes, and HTMLExplorer moves a cursor over the tree.            *)
(*                                                                         *)
(* A Python str is a sequence of one-character strings.  A node dict lives *)
(* in a heap (a sequence of records); its identity is its heap index, so   *)
(* two nodes of equal content are still two nodes.                         *)
(***************************************************************************)
EXTENDS Integers, Sequences, FiniteSets, TLC

\* Number of elements below the document object in a source document.
MaxElems == 2

\* The largest max_retries a WebScraper is constructed with.
MaxRetries == 3

\* Python's None.
None == 0

\* The name of the BeautifulSoup object itself (bs4's ROOT_TAG_NAME).
DocumentName == <<"[", "d", "o", "c", "u", "m", "e", "n", "t", "]">>

----------------------------------------------------------------------------
(* Python str operations *)

IsSpace(c) == c \in {" ", "\t", "\n"}

Range(s) == {s[i] : i \in 1..Len(s)}

\* str.lower(), on the letters the inputs use.
LowerChar(c) ==
  CASE c = "A" -> "a"
    [] c = "B" -> "b"
    [] c = "C" -> "c"
    [] c = "D" -> "d"
    [] c = "E" -> "e"
    [] c = "L" -> "l"
    [] c = "P" -> "p"
    [] c = "S" -> "s"
    [] c = "X" -> "x"
    [] OTHER -> c

Lower(s) == [i \in 1..Len(s) |-> LowerChar(s[i])]

\* s[n:] for n >= 0.
DropPrefix(s, n) == IF n >= Len(s) THEN <<>> ELSE SubSeq(s, n + 1, Len(s))

\* str.startswith
StartsWith(s, p) == Len(p) <= Len(s) /\ SubSeq(s, 1, Len(p)) = p

\* `sub in s`
Contains(s, sub) ==
  \E i \in 0..(Len(s) - Len(sub)) : SubSeq(s, i + 1, i + Len(sub)) = sub

\* str.strip()
Strip(s) ==
  LET idx == {i \in 1..Len(s) : ~IsSpace(s[i])}
  IN IF idx = {} THEN <<>>
     ELSE SubSeq(s, CHOOSE i \in idx : \A j \in idx : i <= j,
                    CHOOSE i \in idx : \A j \in idx : i >= j)

\* sep.join(parts)
RECURSIVE Join(_, _)
Join(sep, parts) ==
  IF Len(parts) = 0 THEN <<>>
  ELSE IF Len(parts) = 1 THEN parts[1]
  ELSE parts[1] \o sep \o Join(sep, Tail(parts))

Digits == {"0", "1", "2", "3", "4", "5", "6", "7", "8", "9"}

DigitVal(c) ==
  CASE c = "0" -> 0 [] c = "1" -> 1 [] c = "2" -> 2 [] c = "3" -> 3
    [] c = "4" -> 4 [] c = "5" -> 5 [] c = "6" -> 6 [] c = "7" -> 7
    [] c = "8" -> 8 [] c = "9" -> 9

RECURSIVE DigitsVal(_)
DigitsVal(s) ==
  IF Len(s) = 0 THEN 0
  ELSE 10 * DigitsVal(SubSeq(s, 1, Len(s) - 1)) + DigitVal(s[Len(s)])

\* Whether int(s) returns (TRUE) or raises ValueError (FALSE): surrounding
\* whitespace, an optional sign, then decimal digits.
IntParses(s) ==
  LET t == Strip(s)
      body == IF Len(t) > 0 /\ t[1] \in {"+", "-"} THEN Tail(t) ELSE t
  IN Len(body) > 0 /\ \A i \in 1..Len(body) : body[i] \in Digits

\* int(s) when it returns.
IntValue(s) ==
  LET t == Strip(s)
  IN IF t[1] = "-" THEN 0 - DigitsVal(Tail(t))
     ELSE IF t[1] = "+" THEN DigitsVal(Tail(t))
     ELSE DigitsVal(t)

----------------------------------------------------------------------------
(* The parsed document handed to HTMLParser: BeautifulSoup(html) *)

\* What an element of the parsed document can be.  A Tag has a name and may
\* carry a class attribute (a list of whitespace-separated tokens); a
\* NavigableString has name None, no children, and is its own text.
ElementKinds ==
  { [type |-> "NavigableString", name |-> <<>>, hasClass |-> FALSE, class |-> <<>>,
     text |-> <<" ", "X">>],
    [type |-> "Tag", name |-> <<"d", "i", "v">>, hasClass |-> FALSE, class |-> <<>>,
     text |-> <<>>],
    [type |-> "Tag", name |-> <<"p">>, hasClass |-> TRUE,
     class |-> << <<"a">>, <<"1">> >>, text |-> <<>>],
    [type |-> "Tag", name |-> <<"s", "p", "a", "n">>, hasClass |-> TRUE,
     class |-> << <<"A">>, <<">">>, <<"a">> >>, text |-> <<>>] }

\* The BeautifulSoup object: a Tag named "[document]" without attributes.
DocumentObject ==
  [type |-> "Tag", name |-> DocumentName, hasClass |-> FALSE, class |-> <<>>,
   text |-> <<>>]

\* The ids of set S in increasing order.
RECURSIVE Ascending(_)
Ascending(S) ==
  IF S = {} THEN <<>>
  ELSE LET m == CHOOSE x \in S : \A y \in S : x <= y
       IN <<m>> \o Ascending(S \ {m})

\* Every document of n elements below the document object.  Element 1 is the
\* document object; element i > 1 is a child of par[i] < i, siblings in id
\* (source) order; only a Tag has children.
DocumentsOf(n) ==
  { [elem |-> [i \in 1..(n + 1) |-> IF i = 1 THEN DocumentObject ELSE kinds[i]],
     kids |-> [i \in 1..(n + 1) |->
                 Ascending({j \in 2..(n + 1) : par[j] = i})]] :
      <<kinds, par>> \in
        { kp \in [2..(n + 1) -> ElementKinds] \X [2..(n + 1) -> 1..n] :
            \A j \in 2..(n + 1) :
              /\ kp[2][j] < j
              /\ kp[2][j] > 1 => kp[1][kp[2][j]].type = "Tag" } }

Documents == UNION {DocumentsOf(n) : n \in 0..MaxElems}

\* Every structure of n entries below the document object that offers a name,
\* a class list and children, whatever BeautifulSoup can produce: here an
\* entry without a name may have children too.
GenericDocumentsOf(n) ==
  { [elem |-> [i \in 1..(n + 1) |-> IF i = 1 THEN DocumentObject ELSE kinds[i]],
     kids |-> [i \in 1..(n + 1) |->
                 Ascending({j \in 2..(n + 1) : par[j] = i})]] :
      <<kinds, par>> \in
        { kp \in [2..(n + 1) -> ElementKinds] \X [2..(n + 1) -> 1..n] :
            \A j \in 2..(n + 1) : kp[2][j] < j } }

GenericDocuments == UNION {GenericDocumentsOf(n) : n \in 0..MaxElems}

\* A Tag element and a NavigableString element of given content.
TagElement(name, hasClass, class) ==
  [type |-> "Tag", name |-> name, hasClass |-> hasClass, class |-> class,
   text |-> <<>>]

StringElement(text) ==
  [type |-> "NavigableString", name |-> <<>>, hasClass |-> FALSE, class |-> <<>>,
   text |-> text]

\* BeautifulSoup('<div class="a"><p>X</p><span class="b">Y</span></div>')
ScenarioDocument ==
  [elem |-> << DocumentObject,
               TagElement(<<"d", "i", "v">>, TRUE, << <<"a">> >>),
               TagElement(<<"p">>, FALSE, <<>>),
               StringElement(<<"X">>),
               TagElement(<<"s", "p", "a", "n">>, TRUE, << <<"b">> >>),
               StringElement(<<"Y">>) >>,
   kids |-> << <<2>>, <<3, 5>>, <<4>>, <<>>, <<6>>, <<>> >>]

\* BeautifulSoup('<div><p class="a 1"><span class="A > a"></span></p><div></div></div>')
NestedDocument ==
  [elem |-> << DocumentObject,
               TagElement(<<"d", "i", "v">>, FALSE, <<>>),
               TagElement(<<"p">>, TRUE, << <<"a">>, <<"1">> >>),
               TagElement(<<"s", "p", "a", "n">>, TRUE, << <<"A">>, <<">">>, <<"a">> >>),
               TagElement(<<"d", "i", "v">>, FALSE, <<>>) >>,
   kids |-> << <<2>>, <<3, 5>>, <<4>>, <<>>, <<>> >>]

\* Two documents larger than the enumerated ones.
SampleDocuments == {ScenarioDocument, NestedDocument}

\* element.name is None (or the object has no name at all)
NameIsNone(element) == element.type # "Tag"

\* element.get("class", [])
GetClass(element) == IF element.hasClass THEN element.class ELSE <<>>

----------------------------------------------------------------------------
(* HTMLParser._build_tree *)

\* The truth value of a build result: None is false, a node dict (it always
\* has four keys) is true.
Truthy(ref) == ref # None

\* NewNode with the parent argument dropped: every node is built parentless.
NewNode_no_parent(element, parent) ==
  [tag |-> element.name,
   classes |-> GetClass(element),
   children |-> <<>>,
   parent |-> None]

\* The node dict literal of _build_tree.
NewNode(element, parent) ==
  [tag |-> element.name,
   classes |-> GetClass(element),
   children |-> <<>>,
   parent |-> parent]

\* node["children"].append(child_node), guarded by `if child_node`.
AppendChild(heap, node, child_node) ==
  IF Truthy(child_node)
  THEN [heap EXCEPT ![node].children = Append(@, child_node)]
  ELSE heap

\* _build_tree handing its own parent argument, not the node it builds, to the
\* calls for the children.
RECURSIVE build_tree_parent_passed_on(_, _, _, _)
build_tree_parent_passed_on(doc, e, parent, heap) ==
  IF NameIsNone(doc.elem[e])
  THEN [heap |-> heap, node |-> None]
  ELSE LET node == Len(heap) + 1
           h0 == Append(heap, NewNode(doc.elem[e], parent))
           loop[i \in 1..(Len(doc.kids[e]) + 1)] ==
             IF i = 1 THEN h0
             ELSE LET r == build_tree_parent_passed_on(doc, doc.kids[e][i - 1],
                                                       parent, loop[i - 1])
                  IN AppendChild(r.heap, node, r.node)
       IN [heap |-> loop[Len(doc.kids[e]) + 1], node |-> node]

\* _build_tree walking through an element without a name: no node for it, but
\* its children are built and handed to the enclosing node.
RECURSIVE build_tree_through_nameless(_, _, _, _)
build_tree_through_nameless(doc, e, parent, heap) ==
  LET named == ~NameIsNone(doc.elem[e])
      node == IF named THEN Len(heap) + 1 ELSE parent
      h0 == IF named THEN Append(heap, NewNode(doc.elem[e], parent)) ELSE heap
      loop[i \in 1..(Len(doc.kids[e]) + 1)] ==
        IF i = 1 THEN h0
        ELSE LET r == build_tree_through_nameless(doc, doc.kids[e][i - 1], node,
                                                  loop[i - 1])
             IN AppendChild(r.heap, node, r.node)
  IN [heap |-> loop[Len(doc.kids[e]) + 1],
      node |-> IF named THEN node ELSE None]

\* _build_tree(element, parent) run against the heap of nodes built so far:
\* returns the new heap and the reference it returns (None for an element
\* without a name).
RECURSIVE build_tree(_, _, _, _)
build_tree(doc, e, parent, heap) ==
  IF NameIsNone(doc.elem[e])
  THEN [heap |-> heap, node |-> None]
  ELSE LET node == Len(heap) + 1
           h0 == Append(heap, NewNode(doc.elem[e], parent))
           \* the for loop over element.children, from child index i on
           loop[i \in 1..(Len(doc.kids[e]) + 1)] ==
             IF i = 1 THEN h0
             ELSE LET r == build_tree(doc, doc.kids[e][i - 1], node, loop[i - 1])
                  IN AppendChild(r.heap, node, r.node)
       IN [heap |-> loop[Len(doc.kids[e]) + 1], node |-> node]

----------------------------------------------------------------------------
(* Presentation helpers *)

\* format_node_identifier(node)
format_node_identifier(heap, node) ==
  LET classes == Join(<<" ">>, heap[node].classes)
  IN IF classes # <<>>
     THEN heap[node].tag \o <<" ", "(">> \o classes \o <<")">>
     ELSE heap[node].tag

\* The string literals of tree_to_string, character by character as the
\* source file holds them (each non-ASCII character is written by its code
\* point).
LastGlyph ==
  <<"u201A", "uEE", "uEE", "u201A", "uEE", "uC4", "u201A", "uEE", "uC4", " ">>

MiddleGlyph ==
  <<"u201A", "uEE", "uFA", "u201A", "uEE", "uC4", "u201A", "uEE", "uC4", " ">>

BlankIndent == <<" ", " ", " ", " ">>

ContinuationIndent == <<"u201A", "uEE", "uC7", " ", " ", " ">>

\* tree_to_string whose loop starts at the second child.
RECURSIVE tree_to_string_skips_first_child(_, _, _, _)
tree_to_string_skips_first_child(heap, node, prefix, is_last) ==
  LET classes_str ==
        IF heap[node].classes # <<>>
        THEN <<" ", "(">> \o Join(<<" ">>, heap[node].classes) \o <<")">>
        ELSE <<>>
      tree_str0 ==
        prefix \o (IF is_last THEN LastGlyph ELSE MiddleGlyph)
               \o heap[node].tag \o classes_str
      children == heap[node].children
      new_prefix == prefix \o (IF is_last THEN BlankIndent ELSE ContinuationIndent)
      loop[i \in 1..(Len(children) + 1)] ==
        IF i <= 2 THEN tree_str0
        ELSE loop[i - 1] \o <<"\n">>
               \o tree_to_string_skips_first_child(heap, children[i - 1], new_prefix,
                                                   (i - 1) - 1 = Len(children) - 1)
  IN loop[Len(children) + 1]

\* tree_to_string whose new_prefix is the blank indent whatever is_last is.
RECURSIVE tree_to_string_blank_indent_only(_, _, _, _)
tree_to_string_blank_indent_only(heap, node, prefix, is_last) ==
  LET classes_str ==
        IF heap[node].classes # <<>>
        THEN <<" ", "(">> \o Join(<<" ">>, heap[node].classes) \o <<")">>
        ELSE <<>>
      tree_str0 ==
        prefix \o (IF is_last THEN LastGlyph ELSE MiddleGlyph)
               \o heap[node].tag \o classes_str
      children == heap[node].children
      new_prefix == prefix \o BlankIndent
      loop[i \in 1..(Len(children) + 1)] ==
        IF i = 1 THEN tree_str0
        ELSE loop[i - 1] \o <<"\n">>
               \o tree_to_string_blank_indent_only(heap, children[i - 1], new_prefix,
                                                   (i - 1) - 1 = Len(children) - 1)
  IN loop[Len(children) + 1]

\* tree_to_string(node, prefix, is_last)
RECURSIVE tree_to_string(_, _, _, _)
tree_to_string(heap, node, prefix, is_last) ==
  LET classes_str ==
        IF heap[node].classes # <<>>
        THEN <<" ", "(">> \o Join(<<" ">>, heap[node].classes) \o <<")">>
        ELSE <<>>
      tree_str0 ==
        prefix \o (IF is_last THEN LastGlyph ELSE MiddleGlyph)
               \o heap[node].tag \o classes_str
      children == heap[node].children
      new_prefix == prefix \o (IF is_last THEN BlankIndent ELSE ContinuationIndent)
      \* tree_str after the first i - 1 children
      loop[i \in 1..(Len(children) + 1)] ==
        IF i = 1 THEN tree_str0
        ELSE loop[i - 1] \o <<"\n">>
               \o tree_to_string(heap, children[i - 1], new_prefix,
                                 (i - 1) - 1 = Len(children) - 1)
  IN loop[Len(children) + 1]

\* The separator of get_breadcrumbs.
Separator == <<" ", ">", " ">>

\* get_breadcrumbs(node): the path list after the while loop, then joined in
\* reverse.
RECURSIVE breadcrumb_path(_, _, _)
breadcrumb_path(heap, node, path) ==
  IF Truthy(node)
  THEN breadcrumb_path(heap, heap[node].parent,
                       Append(path, format_node_identifier(heap, node)))
  ELSE path

Reversed(s) == [i \in 1..Len(s) |-> s[Len(s) + 1 - i]]

\* get_breadcrumbs writing the separator after every entry.
get_breadcrumbs_separator_after_each(heap, node) ==
  LET path == Reversed(breadcrumb_path(heap, node, <<>>))
  IN Join(<<>>, [i \in 1..Len(path) |-> path[i] \o Separator])

get_breadcrumbs(heap, node) ==
  Join(Separator, Reversed(breadcrumb_path(heap, node, <<>>)))

----------------------------------------------------------------------------
(* HTMLParser.export_json *)

\* remove_parent filtering on a misspelt key: "parent" stays in the copy.
RECURSIVE remove_parent_key_misspelt(_, _)
remove_parent_key_misspelt(heap, node) ==
  LET new_node == [k \in (DOMAIN heap[node]) \ {"parents"} |-> heap[node][k]]
  IN IF "children" \in DOMAIN new_node
     THEN [new_node EXCEPT !["children"] =
             [i \in 1..Len(new_node["children"]) |->
                remove_parent_key_misspelt(heap, new_node["children"][i])]]
     ELSE new_node

\* remove_parent(node): a new dict without the "parent" key, its children
\* replaced by their own copies.
RECURSIVE remove_parent(_, _)
remove_parent(heap, node) ==
  LET new_node == [k \in (DOMAIN heap[node]) \ {"parent"} |-> heap[node][k]]
  IN IF "children" \in DOMAIN new_node
     THEN [new_node EXCEPT !["children"] =
             [i \in 1..Len(new_node["children"]) |->
                remove_parent(heap, new_node["children"][i])]]
     ELSE new_node

----------------------------------------------------------------------------
(* HTMLParser.extract_text_by_blocks *)

\* The elements below element e in document order (e left out).
RECURSIVE Descendants(_, _)
Descendants(doc, e) ==
  LET kids == doc.kids[e]
      upto[i \in 0..Len(kids)] ==
        IF i = 0 THEN <<>>
        ELSE upto[i - 1] \o <<kids[i]>> \o Descendants(doc, kids[i])
  IN upto[Len(kids)]

\* soup.find_all(True): every Tag below the document object, in document order.
find_all(doc) ==
  SelectSeq(Descendants(doc, 1), LAMBDA e : doc.elem[e].type = "Tag")

\* get_text reading only the strings that are children of the element itself.
get_text_direct_strings_only(doc, e) ==
  LET strings == SelectSeq(doc.kids[e],
                           LAMBDA d : doc.elem[d].type = "NavigableString")
      stripped == [i \in 1..Len(strings) |-> Strip(doc.elem[strings[i]].text)]
  IN Join(<<>>, SelectSeq(stripped, LAMBDA t : t # <<>>))

\* element.get_text(strip=True): every string below the element, each stripped,
\* the empty ones dropped, joined without a separator.
get_text(doc, e) ==
  LET strings == SelectSeq(Descendants(doc, e),
                           LAMBDA d : doc.elem[d].type = "NavigableString")
      stripped == [i \in 1..Len(strings) |-> Strip(doc.elem[strings[i]].text)]
  IN Join(<<>>, SelectSeq(stripped, LAMBDA t : t # <<>>))

\* The empty dict.
EmptyDict == [k \in {} |-> <<>>]

\* blocks.setdefault(key, []).append(value)
SetDefaultAppend(dict, key, value) ==
  [k \in (DOMAIN dict) \cup {key} |->
     IF k = key
     THEN (IF key \in DOMAIN dict THEN Append(dict[key], value) ELSE <<value>>)
     ELSE dict[k]]

\* The tags extract_text_by_blocks collects text for.
BlockTags == {<<"d", "i", "v">>, <<"p">>, <<"s", "p", "a", "n">>}

\* extract_text_by_blocks(): the dict it returns.
extract_text_by_blocks(doc) ==
  LET found == find_all(doc)
      upto[i \in 0..Len(found)] ==
        IF i = 0 THEN EmptyDict
        ELSE LET block == found[i]
                 block_text == get_text(doc, block)
             IN IF doc.elem[block].name \in BlockTags /\ block_text # <<>>
                THEN SetDefaultAppend(upto[i - 1], doc.elem[block].name, block_text)
                ELSE upto[i - 1]
  IN upto[Len(found)]

----------------------------------------------------------------------------
(* HTMLExplorer *)

\* The messages the explorer prints on a miss or at exit.
AlreadyAtRoot == "Already at the root."
IndexOutOfRange == "Index out of range."
NoMatchingClass == "No matching class found."
NoChildren == "No children."
NoMatches == "No matches found."
UnknownCommand == "Unknown command."
Exiting == "Exiting explorer."

\* list_children(): the lines "[idx] identifier", or the no-children notice.
list_children(heap, current) ==
  LET children == heap[current].children
  IN IF children # <<>>
     THEN [lines |-> [i \in 1..Len(children) |->
                        [idx |-> i - 1,
                         identifier |-> format_node_identifier(heap, children[i])]],
           report |-> <<>>]
     ELSE [lines |-> <<>>, report |-> <<NoChildren>>]

\* matching_children collected in reverse child order.
matching_children_reversed(heap, children, arg) ==
  LET m == SelectSeq(children,
                     LAMBDA child : Contains(Join(<<" ">>, heap[child].classes), arg))
  IN [i \in 1..Len(m) |-> m[Len(m) + 1 - i]]

\* The children whose joined classes contain arg, in child order.
matching_children(heap, children, arg) ==
  SelectSeq(children,
            LAMBDA child : Contains(Join(<<" ">>, heap[child].classes), arg))

\* change_directory with the parent check of ".." left out: at the root the
\* cursor becomes None.
change_directory_unchecked_up(heap, current, arg) ==
  LET children == heap[current].children
  IN IF arg = <<".", ".">>
     THEN [current |-> heap[current].parent, report |-> <<>>]
     ELSE IF IntParses(arg)
     THEN LET idx == IntValue(arg)
          IN IF 0 <= idx /\ idx < Len(children)
             THEN [current |-> children[idx + 1], report |-> <<>>]
             ELSE [current |-> current, report |-> <<IndexOutOfRange>>]
     ELSE LET matching == matching_children(heap, children, arg)
          IN IF matching # <<>>
             THEN [current |-> matching[1], report |-> <<>>]
             ELSE [current |-> current, report |-> <<NoMatchingClass>>]

\* change_directory with ".." climbing two levels where it can.
change_directory_up_twice(heap, current, arg) ==
  LET children == heap[current].children
      up == heap[current].parent
  IN IF arg = <<".", ".">>
     THEN IF Truthy(up)
          THEN [current |-> IF Truthy(heap[up].parent) THEN heap[up].parent ELSE up,
                report |-> <<>>]
          ELSE [current |-> current, report |-> <<AlreadyAtRoot>>]
     ELSE IF IntParses(arg)
     THEN LET idx == IntValue(arg)
          IN IF 0 <= idx /\ idx < Len(children)
             THEN [current |-> children[idx + 1], report |-> <<>>]
             ELSE [current |-> current, report |-> <<IndexOutOfRange>>]
     ELSE LET matching == matching_children(heap, children, arg)
          IN IF matching # <<>>
             THEN [current |-> matching[1], report |-> <<>>]
             ELSE [current |-> current, report |-> <<NoMatchingClass>>]

\* change_directory trying the class match when the index is out of range.
change_directory_index_falls_through(heap, current, arg) ==
  LET children == heap[current].children
      matching == matching_children(heap, children, arg)
  IN IF arg = <<".", ".">>
     THEN IF Truthy(heap[current].parent)
          THEN [current |-> heap[current].parent, report |-> <<>>]
          ELSE [current |-> current, report |-> <<AlreadyAtRoot>>]
     ELSE IF IntParses(arg) /\ 0 <= IntValue(arg) /\ IntValue(arg) < Len(children)
     THEN [current |-> children[IntValue(arg) + 1], report |-> <<>>]
     ELSE IF matching # <<>>
     THEN [current |-> matching[1], report |-> <<>>]
     ELSE [current |-> current,
           report |-> IF IntParses(arg) THEN <<IndexOutOfRange>>
                      ELSE <<NoMatchingClass>>]

\* change_directory(arg): the cursor afterwards and what was printed.
change_directory(heap, current, arg) ==
  LET children == heap[current].children
  IN IF arg = <<".", ".">>
     THEN IF Truthy(heap[current].parent)
          THEN [current |-> heap[current].parent, report |-> <<>>]
          ELSE [current |-> current, report |-> <<AlreadyAtRoot>>]
     ELSE IF IntParses(arg)
     THEN LET idx == IntValue(arg)
          IN IF 0 <= idx /\ idx < Len(children)
             THEN [current |-> children[idx + 1], report |-> <<>>]
             ELSE [current |-> current, report |-> <<IndexOutOfRange>>]
     ELSE LET matching == matching_children(heap, children, arg)
          IN IF matching # <<>>
             THEN [current |-> matching[1], report |-> <<>>]
             ELSE [current |-> current, report |-> <<NoMatchingClass>>]

\* search_tree comparing the lowered query with the identifier as it stands.
RECURSIVE search_tree_identifier_not_lowered(_, _, _, _)
search_tree_identifier_not_lowered(heap, query, node, results) ==
  LET identifier == format_node_identifier(heap, node)
      r0 == IF Contains(identifier, query) THEN Append(results, node) ELSE results
      children == heap[node].children
      loop[i \in 1..(Len(children) + 1)] ==
        IF i = 1 THEN r0
        ELSE search_tree_identifier_not_lowered(heap, query, children[i - 1],
                                                loop[i - 1])
  IN loop[Len(children) + 1]

\* search_tree(node) of search(): results after visiting node's subtree.
RECURSIVE search_tree(_, _, _, _)
search_tree(heap, query, node, results) ==
  LET identifier == Lower(format_node_identifier(heap, node))
      r0 == IF Contains(identifier, query) THEN Append(results, node) ELSE results
      children == heap[node].children
      loop[i \in 1..(Len(children) + 1)] ==
        IF i = 1 THEN r0
        ELSE search_tree(heap, query, children[i - 1], loop[i - 1])
  IN loop[Len(children) + 1]

\* search(query): the result list and what was printed.
search(heap, current, query) ==
  LET results == search_tree(heap, Lower(query), current, <<>>)
  IN [results |-> results,
      report |-> IF results # <<>> THEN <<>> ELSE <<NoMatches>>]

\* The lines typed at the prompt of start().
Lines ==
  { <<" ", "L", "S", " ">>,
    <<"c", "d", " ", ".", ".">>,
    <<"c", "d", " ", "0">>,
    <<"c", "d", " ", "1">>,
    <<"c", "d", " ", "7">>,
    <<"c", "d", " ", "a">>,
    <<"C", "D", " ", "A">>,
    <<"e", "x", "p", "a", "n", "d">>,
    <<"s", "e", "a", "r", "c", "h", " ", "P">>,
    <<"s", "e", "a", "r", "c", "h", " ">>,
    <<"e", "x", "i", "t">>,
    <<"h", "e", "l", "p">> }

\* The arguments of direct change_directory calls.
CdArgs ==
  { <<".", ".">>,
    <<"0">>,
    <<"1">>,
    <<"-", "1">>,
    <<"a">>,
    <<"a", " ", "1">>,
    <<>>,
    <<"z", "z">> }

\* The queries of direct search calls.
Queries ==
  { <<>>,
    <<"A", " ", ">">>,
    <<"P", " ", "(">>,
    <<"z", "z">> }

----------------------------------------------------------------------------
(* HTMLExplorer.start: one line of input *)

\* The branch of start() a typed line takes, and the argument it passes on.
dispatch(line) ==
  LET command == Strip(line)
      lowered == Lower(command)
  IN IF lowered = <<"l", "s">>
     THEN [kind |-> "ls", arg |-> <<>>]
     ELSE IF StartsWith(lowered, <<"c", "d", " ">>)
     THEN [kind |-> "cd", arg |-> Strip(DropPrefix(command, 3))]
     ELSE IF lowered = <<"e", "x", "p", "a", "n", "d">>
     THEN [kind |-> "expand", arg |-> <<>>]
     ELSE IF StartsWith(lowered, <<"s", "e", "a", "r", "c", "h", " ">>)
     THEN [kind |-> "search", arg |-> Strip(DropPrefix(command, 7))]
     ELSE IF lowered = <<"e", "x", "i", "t">>
     THEN [kind |-> "exit", arg |-> <<>>]
     ELSE [kind |-> "unknown", arg |-> <<>>]

----------------------------------------------------------------------------
(* WebScraper *)

\* The proxy arguments: None (here the empty string, as falsy) or an address.
Proxies == {<<>>, <<"h", ":", "1">>}

\* The retry delays, in seconds.
RetryDelays == {0, 2}

\* The arguments added to chrome_options.
ChromeOptions(proxy) ==
  << <<"headless">>, <<"disable-gpu">>, <<"no-sandbox">> >>
    \o (IF proxy # <<>> THEN << <<"proxy-server">> \o proxy >> ELSE << >>)

\* range(stop) yielding its upper end too.
InRange_through_stop(position, stop) == position <= stop

\* Whether the iterator of range(stop) at the given position yields a value.
InRange(position, stop) == position < stop

\* WebScraper(proxy, max_retries, retry_delay) with no fetch under way.
\*   pc        where fetch is: "idle", "loop" (at the for statement), "try"
\*             (loading the page), "sleep" (in the except clause), "returned",
\*             "raised" (line 48), "propagated" (another exception left fetch)
\*   position  the next value of range(max_retries)
\*   attempt   the loop variable
\*   attempts, failures, sleeps, slept
\*             page loads begun, WebDriverExceptions caught, time.sleep calls
\*             completed and the seconds they took
Scraper(proxy, max_retries, retry_delay) ==
  [proxy |-> proxy, max_retries |-> max_retries, retry_delay |-> retry_delay,
   options |-> << >>, pc |-> "idle", position |-> 0, attempt |-> 0,
   attempts |-> 0, failures |-> 0, sleeps |-> 0, slept |-> 0]

\* WebScraper(proxy=args.proxy): the defaults of __init__.
DefaultScraper == Scraper(<<>>, 3, 2)

----------------------------------------------------------------------------
(* State *)

VARIABLES
  soup,          \* HTMLParser.soup: the parsed document
  tree,          \* the heap of node dicts built by _build_tree
  root,          \* HTMLParser.root
  current_node,  \* HTMLExplorer.current_node
  session,       \* start(): "idle" before it runs, "prompt" while it waits
                 \* for a line, "ended" after exit, "aborted" after input() raised
  last,          \* the last operation and its argument
  prev,          \* current_node before the last operation
  older,         \* history: the index descend made by the operation before
                 \* the last one, [from, idx], or NoDescend
  report,        \* the notices the last operation printed
  listing,       \* what list_children last printed
  path,          \* the breadcrumb line of the current prompt
  rendered,      \* the subtree printed by the last expand
  results,       \* the result list of the last search
  exported,      \* what the last export_json wrote: <<>> or <<dict>>
  blocks,        \* what the last extract_text_by_blocks returned: <<>> or <<dict>>
  fetch          \* the WebScraper and the fetch call under way

vars ==
  <<soup, tree, root, current_node, session, last, prev, older, report, listing,
    path, rendered, results, exported, blocks, fetch>>

\* The argument of the change_directory call the operation op made: <<arg>>,
\* or <<>> when it made none.
CdArgOf(op) ==
  IF op.op = "change_directory" THEN <<op.arg>>
  ELSE IF op.op = "input" /\ dispatch(op.arg).kind = "cd"
  THEN <<dispatch(op.arg).arg>>
  ELSE <<>>

\* The query of the search call the operation op made: <<query>>, or <<>>.
SearchArgOf(op) ==
  IF op.op = "search" THEN <<op.arg>>
  ELSE IF op.op = "input" /\ dispatch(op.arg).kind = "search"
  THEN <<dispatch(op.arg).arg>>
  ELSE <<>>

NoDescend == [from |-> None, idx |-> -1]

\* History: whether operation op, made with the cursor at node before, was a
\* descend by an index valid at that node, and from where.
DescendOf(op, before) ==
  LET a == CdArgOf(op)
  IN IF /\ a # <<>>
        /\ a[1] # <<".", ".">>
        /\ IntParses(a[1])
        /\ 0 <= IntValue(a[1])
        /\ IntValue(a[1]) < Len(tree[before].children)
     THEN [from |-> before, idx |-> IntValue(a[1])]
     ELSE NoDescend

NoListing == [lines |-> <<>>, report |-> <<>>]

Nodes == 1..Len(tree)

\* HTMLParser and HTMLExplorer constructed on one of the documents docs.
InitFrom(docs) ==
  /\ soup \in docs
  /\ LET built == build_tree(soup, 1, None, <<>>)
     IN /\ tree = built.heap
        /\ root = built.node
        /\ current_node = built.node
        /\ prev = built.node
  /\ session = "idle"
  /\ last = [op |-> "init", arg |-> <<>>]
  /\ older = NoDescend
  /\ report = <<>>
  /\ listing = NoListing
  /\ path = <<>>
  /\ rendered = <<>>
  /\ results = <<>>
  /\ exported = <<>>
  /\ blocks = <<>>

\* HTMLParser(html) followed by HTMLExplorer(parser.get_tree()).
Init ==
  /\ InitFrom(Documents \cup SampleDocuments)
  /\ fetch = DefaultScraper

\* The same on a generic parsed-document structure.
InitGeneric ==
  /\ InitFrom(GenericDocuments)
  /\ fetch = DefaultScraper

\* start() entered: the first prompt shows the path and the children.
Start ==
  /\ session = "idle"
  /\ session' = "prompt"
  /\ last' = [op |-> "start", arg |-> <<>>]
  /\ prev' = current_node
  /\ older' = DescendOf(last, prev)
  /\ blocks' = <<>>
  /\ path' = get_breadcrumbs(tree, current_node)
  /\ listing' = list_children(tree, current_node)
  /\ report' = <<>>
  /\ rendered' = <<>>
  /\ results' = <<>>
  /\ UNCHANGED <<fetch, soup, tree, root, current_node, exported>>

\* One iteration of the loop of start(): the line is read and dispatched, and
\* unless it was exit the next prompt shows the path and the children.
Input(line) ==
  /\ session = "prompt"
  /\ LET cmd == dispatch(line)
         moved == IF cmd.kind = "cd"
                  THEN change_directory(tree, current_node, cmd.arg)
                  ELSE [current |-> current_node, report |-> <<>>]
         found == IF cmd.kind = "search"
                  THEN search(tree, current_node, cmd.arg)
                  ELSE [results |-> <<>>, report |-> <<>>]
     IN /\ current_node' = moved.current
        /\ results' = found.results
        /\ rendered' = IF cmd.kind = "expand"
                       THEN tree_to_string(tree, current_node, <<>>, TRUE)
                       ELSE <<>>
        /\ report' = CASE cmd.kind = "cd" -> moved.report
                       [] cmd.kind = "search" -> found.report
                       [] cmd.kind = "exit" -> <<Exiting>>
                       [] cmd.kind = "unknown" -> <<UnknownCommand>>
                       [] OTHER -> <<>>
        /\ session' = IF cmd.kind = "exit" THEN "ended" ELSE "prompt"
        /\ path' = IF cmd.kind = "exit" THEN <<>>
                   ELSE get_breadcrumbs(tree, moved.current)
        /\ listing' = IF cmd.kind = "exit" THEN NoListing
                      ELSE list_children(tree, moved.current)
  /\ last' = [op |-> "input", arg |-> line]
  /\ prev' = current_node
  /\ older' = DescendOf(last, prev)
  /\ blocks' = <<>>
  /\ UNCHANGED <<fetch, soup, tree, root, exported>>

\* input() raises (end of input): start() is left by the exception.
InputFails ==
  /\ session = "prompt"
  /\ session' = "aborted"
  /\ last' = [op |-> "eof", arg |-> <<>>]
  /\ prev' = current_node
  /\ older' = DescendOf(last, prev)
  /\ blocks' = <<>>
  /\ report' = <<"EOFError">>
  /\ listing' = NoListing
  /\ path' = <<>>
  /\ rendered' = <<>>
  /\ results' = <<>>
  /\ UNCHANGED <<fetch, soup, tree, root, current_node, exported>>

\* The methods called directly, before start() takes over (nothing runs after
\* start() returns).

ListChildren ==
  /\ session = "idle"
  /\ last' = [op |-> "list_children", arg |-> <<>>]
  /\ prev' = current_node
  /\ older' = DescendOf(last, prev)
  /\ blocks' = <<>>
  /\ listing' = list_children(tree, current_node)
  /\ report' = <<>>
  /\ path' = <<>>
  /\ rendered' = <<>>
  /\ results' = <<>>
  /\ UNCHANGED <<fetch, soup, tree, root, current_node, session, exported>>

ChangeDirectory(arg) ==
  /\ session = "idle"
  /\ LET moved == change_directory(tree, current_node, arg)
     IN /\ current_node' = moved.current
        /\ report' = moved.report
  /\ last' = [op |-> "change_directory", arg |-> arg]
  /\ prev' = current_node
  /\ older' = DescendOf(last, prev)
  /\ blocks' = <<>>
  /\ listing' = NoListing
  /\ path' = <<>>
  /\ rendered' = <<>>
  /\ results' = <<>>
  /\ UNCHANGED <<fetch, soup, tree, root, session, exported>>

Expand ==
  /\ session = "idle"
  /\ rendered' = tree_to_string(tree, current_node, <<>>, TRUE)
  /\ last' = [op |-> "expand", arg |-> <<>>]
  /\ prev' = current_node
  /\ older' = DescendOf(last, prev)
  /\ blocks' = <<>>
  /\ report' = <<>>
  /\ listing' = NoListing
  /\ path' = <<>>
  /\ results' = <<>>
  /\ UNCHANGED <<fetch, soup, tree, root, current_node, session, exported>>

Search(query) ==
  /\ session = "idle"
  /\ LET found == search(tree, current_node, query)
     IN /\ results' = found.results
        /\ report' = found.report
  /\ last' = [op |-> "search", arg |-> query]
  /\ prev' = current_node
  /\ older' = DescendOf(last, prev)
  /\ blocks' = <<>>
  /\ listing' = NoListing
  /\ path' = <<>>
  /\ rendered' = <<>>
  /\ UNCHANGED <<fetch, soup, tree, root, current_node, session, exported>>

\* export_json(filename): the copy without parents is built, then written;
\* open() may raise, and then nothing is written.
ExportJson(writable) ==
  /\ session = "idle"
  /\ LET tree_without_parents == remove_parent(tree, root)
     IN /\ exported' = IF writable THEN <<tree_without_parents>> ELSE <<>>
        /\ report' = IF writable THEN <<>> ELSE <<"OSError">>
  /\ last' = [op |-> "export_json", arg |-> <<>>]
  /\ prev' = current_node
  /\ older' = DescendOf(last, prev)
  /\ blocks' = <<>>
  /\ listing' = NoListing
  /\ path' = <<>>
  /\ rendered' = <<>>
  /\ results' = <<>>
  /\ UNCHANGED <<fetch, soup, tree, root, current_node, session>>

\* extract_text_by_blocks()
ExtractTextByBlocks ==
  /\ session = "idle"
  /\ blocks' = <<extract_text_by_blocks(soup)>>
  /\ last' = [op |-> "extract_text_by_blocks", arg |-> <<>>]
  /\ prev' = current_node
  /\ older' = NoDescend
  /\ report' = <<>>
  /\ listing' = NoListing
  /\ path' = <<>>
  /\ rendered' = <<>>
  /\ results' = <<>>
  /\ UNCHANGED <<fetch, soup, tree, root, current_node, session, exported>>

Next ==
  \/ Start
  \/ \E line \in Lines : Input(line)
  \/ InputFails
  \/ ListChildren
  \/ \E arg \in CdArgs : ChangeDirectory(arg)
  \/ Expand
  \/ \E query \in Queries : Search(query)
  \/ \E writable \in BOOLEAN : ExportJson(writable)
  \/ ExtractTextByBlocks

Spec == Init /\ [][Next]_vars

\* The parser and the explorer on generic parsed-document structures.
SpecGeneric == InitGeneric /\ [][Next]_vars

----------------------------------------------------------------------------
(* WebScraper.fetch *)

\* What fetch leaves alone: the parser and the explorer.
html_vars ==
  <<soup, tree, root, current_node, session, last, prev, older, report, listing,
    path, rendered, results, exported, blocks>>

\* A WebScraper is constructed; no page was fetched, so nothing is parsed.
InitFetch ==
  /\ InitFrom(DocumentsOf(0))
  /\ fetch \in {Scraper(proxy, max_retries, retry_delay) :
                  proxy \in Proxies,
                  max_retries \in 0..MaxRetries,
                  retry_delay \in RetryDelays}

\* fetch(url) up to the for statement: the options are set up.
FetchCall ==
  /\ fetch.pc = "idle"
  /\ fetch' = [fetch EXCEPT !.options = ChromeOptions(fetch.proxy),
                            !.pc = "loop"]
  /\ UNCHANGED html_vars

\* for attempt in range(self.max_retries): the next attempt begins, or the
\* range is used up and line 48 raises.
FetchLoop ==
  /\ fetch.pc = "loop"
  /\ fetch' = IF InRange(fetch.position, fetch.max_retries)
              THEN [fetch EXCEPT !.attempt = fetch.position,
                                 !.position = @ + 1,
                                 !.attempts = @ + 1,
                                 !.pc = "try"]
              ELSE [fetch EXCEPT !.pc = "raised"]
  /\ UNCHANGED html_vars

\* The page loads: return driver.page_source.
AttemptSucceeds ==
  /\ fetch.pc = "try"
  /\ fetch' = [fetch EXCEPT !.pc = "returned"]
  /\ UNCHANGED html_vars

\* The try block raises WebDriverException: the except clause is entered.
AttemptFails ==
  /\ fetch.pc = "try"
  /\ fetch' = [fetch EXCEPT !.failures = @ + 1, !.pc = "sleep"]
  /\ UNCHANGED html_vars

\* The try block raises an exception that is no WebDriverException: no clause
\* catches it and it leaves fetch.
AttemptBreaks ==
  /\ fetch.pc = "try"
  /\ fetch' = [fetch EXCEPT !.pc = "propagated"]
  /\ UNCHANGED html_vars

\* time.sleep(self.retry_delay) returns; back to the for statement.
FetchSleep ==
  /\ fetch.pc = "sleep"
  /\ fetch' = [fetch EXCEPT !.sleeps = @ + 1,
                            !.slept = @ + fetch.retry_delay,
                            !.pc = "loop"]
  /\ UNCHANGED html_vars

NextFetch ==
  \/ FetchCall
  \/ FetchLoop
  \/ AttemptSucceeds
  \/ AttemptFails
  \/ AttemptBreaks
  \/ FetchSleep

\* One call of fetch. Every statement of fetch completes: the page load ends in
\* a page or an exception, and time.sleep returns.
SpecFetch == InitFetch /\ [][NextFetch]_vars /\ WF_vars(NextFetch)

----------------------------------------------------------------------------
(* Properties *)

\* The nodes reachable from node n through children, n included.
RECURSIVE Subtree(_, _)
Subtree(heap, n) ==
  {n} \cup UNION {Subtree(heap, heap[n].children[i]) :
                    i \in 1..Len(heap[n].children)}

\* The number of edges from node n up to the parentless node above it.
RECURSIVE Depth(_, _)
Depth(heap, n) ==
  IF heap[n].parent = None THEN 0 ELSE 1 + Depth(heap, heap[n].parent)

\* C1: in the tree built by _build_tree every node whose parent is not None is,
\* by identity, an element of its parent's children list, and exactly one node
\* has no parent.
C1_ParentIsOwner ==
  /\ \A n \in Nodes :
       tree[n].parent # None =>
         /\ tree[n].parent \in Nodes
         /\ \E i \in 1..Len(tree[tree[n].parent].children) :
              tree[tree[n].parent].children[i] = n
  /\ Cardinality({n \in Nodes : tree[n].parent = None}) = 1

\* C1 witness: a built tree with a node two levels below the root whose
\* content equals its parent's.
C1_Witness ==
  \E n \in Nodes :
    /\ Depth(tree, n) = 2
    /\ tree[n].tag = tree[tree[n].parent].tag
    /\ tree[n].classes = tree[tree[n].parent].classes

\* C2: after any sequence of explorer commands the cursor is a node reachable
\* from the root of the tree through children.
C2_CursorInTree == current_node \in Subtree(tree, root)

\* C2 witness: the loop has handled a line and the cursor stands two levels
\* below the root.
C2_Witness ==
  /\ last.op = "input"
  /\ session = "prompt"
  /\ current_node \in Nodes
  /\ Depth(tree, current_node) = 2

\* C3: cd ".." at the root leaves the cursor where it was and reports the
\* failure; cd ".." at any other node sets the cursor to the node that was
\* its parent.
C3_Ascend ==
  CdArgOf(last) = << <<".", ".">> >> =>
    IF tree[prev].parent = None
    THEN current_node = prev /\ report = <<AlreadyAtRoot>>
    ELSE current_node = tree[prev].parent

\* C3 witness: cd ".." was issued away from the root and the cursor went up.
C3_Witness ==
  /\ CdArgOf(last) = << <<".", ".">> >>
  /\ prev # root
  /\ Depth(tree, prev) = 2
  /\ current_node = tree[prev].parent

\* Whether the joined classes of node n contain text.
ClassesContain(heap, n, text) == Contains(Join(<<" ">>, heap[n].classes), text)

\* C4: with the cursor at a node N that has children, cd i for a valid child
\* index i followed by cd ".." brings the cursor back to N itself, the same
\* node and not merely one of equal content; from the root, cd 0 then cd ".."
\* ends at the root.
C4_DescendThenAscend ==
  (CdArgOf(last) = << <<".", ".">> >> /\ older # NoDescend) =>
    /\ prev = tree[older.from].children[older.idx + 1]
    /\ current_node = older.from

\* C4 witness: cd 0 at the root, then cd "..", and the cursor is the root
\* again although another node of the tree has the root's child's content.
C4_Witness ==
  /\ CdArgOf(last) = << <<".", ".">> >>
  /\ older = [from |-> root, idx |-> 0]
  /\ current_node = root
  /\ \E n \in Nodes :
       n # prev /\ tree[n].tag = tree[prev].tag /\ tree[n].classes = tree[prev].classes

\* C5: cd arg with arg an integer: an index within the children moves the
\* cursor to that child; any other integer, negative or too large, is
\* reported and leaves the cursor, also when a child's classes contain arg.
C5_IndexDescend ==
  \A a \in Range(CdArgOf(last)) :
    (a # <<".", ".">> /\ IntParses(a)) =>
      LET children == tree[prev].children
          idx == IntValue(a)
      IN IF 0 <= idx /\ idx < Len(children)
         THEN current_node = children[idx + 1]
         ELSE current_node = prev /\ report = <<IndexOutOfRange>>

\* C5 witness: cd 1 at a node with a single child whose classes contain "1":
\* the index is out of range, the miss is reported and the cursor stays.
C5_Witness ==
  /\ CdArgOf(last) = << <<"1">> >>
  /\ Len(tree[prev].children) = 1
  /\ ClassesContain(tree, tree[prev].children[1], <<"1">>)
  /\ current_node = prev
  /\ report = <<IndexOutOfRange>>

\* C6: cd text with text not an integer moves the cursor to the first child,
\* in child order, whose classes joined by one space contain text; without
\* such a child the miss is reported and the cursor stays.
C6_ClassDescend ==
  \A a \in Range(CdArgOf(last)) :
    (a # <<".", ".">> /\ ~IntParses(a)) =>
      LET children == tree[prev].children
          hits == {i \in 1..Len(children) : ClassesContain(tree, children[i], a)}
      IN IF hits # {}
         THEN \E i \in hits : /\ \A j \in hits : i <= j
                              /\ current_node = children[i]
         ELSE current_node = prev /\ report = <<NoMatchingClass>>

\* C6 witness: cd a at a node with two children of different classes that
\* both match: the cursor is on the first.
C6_Witness ==
  /\ CdArgOf(last) = << <<"a">> >>
  /\ Len(tree[prev].children) = 2
  /\ ClassesContain(tree, tree[prev].children[1], <<"a">>)
  /\ ClassesContain(tree, tree[prev].children[2], <<"a">>)
  /\ tree[tree[prev].children[1]].classes # tree[tree[prev].children[2]].classes
  /\ current_node = tree[prev].children[1]

\* The nodes of the subtree of n in pre-order: n, then the subtrees of its
\* children from first to last.
RECURSIVE Preorder(_, _)
Preorder(heap, n) ==
  LET children == heap[n].children
      upto[i \in 0..Len(children)] ==
        IF i = 0 THEN <<n>> ELSE upto[i - 1] \o Preorder(heap, children[i])
  IN upto[Len(children)]

\* Node a comes before node b in a depth-first pre-order walk: a is above b,
\* or they lie below two children of one node, a's the earlier.
ComesBefore(heap, a, b) ==
  \/ a # b /\ b \in Subtree(heap, a)
  \/ \E c \in 1..Len(heap) :
       \E i, j \in 1..Len(heap[c].children) :
         /\ i < j
         /\ a \in Subtree(heap, heap[c].children[i])
         /\ b \in Subtree(heap, heap[c].children[j])

\* C7: search(query) yields exactly the nodes of the subtree of the cursor,
\* the cursor included, whose identifier contains query without regard to
\* case, in depth-first pre-order; the empty query yields every node of the
\* subtree; the cursor does not move.
C7_SearchResults ==
  \A q \in Range(SearchArgOf(last)) :
    LET subtree == Subtree(tree, prev)
        wanted == {n \in subtree :
                     Contains(Lower(format_node_identifier(tree, n)), Lower(q))}
    IN /\ Range(results) = wanted
       /\ Len(results) = Cardinality(wanted)
       /\ \A i, j \in 1..Len(results) :
            i < j => ComesBefore(tree, results[i], results[j])
       /\ (q = <<>> => Range(results) = subtree)
       /\ current_node = prev

\* C7 witness: a query in upper case finds two nodes or more, one below the
\* other's earlier sibling or below it, and leaves other nodes of the subtree
\* out.
C7_Witness ==
  /\ SearchArgOf(last) = << <<"A", " ", ">">> >>
  /\ Len(results) >= 2
  /\ Cardinality(Subtree(tree, prev)) > Len(results)
  /\ Depth(tree, results[Len(results)]) = 2

\* The exported dict x has exactly the keys tag, classes and children, holds
\* node n's tag and classes, and its children are the exports of n's children
\* in order.
RECURSIVE ExportOf(_, _, _)
ExportOf(heap, x, n) ==
  /\ DOMAIN x = {"tag", "classes", "children"}
  /\ x["tag"] = heap[n].tag
  /\ x["classes"] = heap[n].classes
  /\ Len(x["children"]) = Len(heap[n].children)
  /\ \A i \in 1..Len(heap[n].children) :
       ExportOf(heap, x["children"][i], heap[n].children[i])

\* C8: what export_json writes holds, for every node at every depth, exactly
\* tag, classes and children (the children exported alike, in order) and no
\* parent; the tree in memory, parents included, is as it was built.
C8_ExportWithoutParent ==
  exported # <<>> =>
    /\ ExportOf(tree, exported[1], root)
    /\ tree = build_tree(soup, 1, None, <<>>).heap

\* C8 witness: a tree three levels deep, with classes on a node, was exported.
C8_Witness ==
  /\ exported # <<>>
  /\ last.op = "export_json"
  /\ \E n \in Nodes : Depth(tree, n) = 2 /\ tree[n].classes # <<>>

\* s.split("\n")
RECURSIVE SplitLines(_)
SplitLines(s) ==
  IF \A i \in 1..Len(s) : s[i] # "\n" THEN <<s>>
  ELSE LET k == CHOOSE i \in 1..Len(s) :
                  s[i] = "\n" /\ \A j \in 1..(i - 1) : s[j] # "\n"
       IN <<SubSeq(s, 1, k - 1)>> \o SplitLines(DropPrefix(s, k))

\* str.endswith
EndsWith(s, suffix) ==
  Len(suffix) <= Len(s) /\ SubSeq(s, Len(s) - Len(suffix) + 1, Len(s)) = suffix

\* C9: tree_to_string(node) has as many lines as the subtree of node has
\* nodes, node included: one line per node, in pre-order.
C9_OneLinePerNode ==
  rendered # <<>> =>
    LET lines == SplitLines(rendered)
        order == Preorder(tree, prev)
    IN /\ Len(lines) = Cardinality(Subtree(tree, prev))
       /\ Len(lines) = Len(order)
       /\ \A k \in 1..Len(order) :
            EndsWith(lines[k], format_node_identifier(tree, order[k]))

\* C9 witness: the root was rendered and it has a grandchild.
C9_Witness ==
  /\ rendered # <<>>
  /\ prev = root
  /\ \E n \in Nodes : Depth(tree, n) = 2

\* C10: the breadcrumb line shown for the root of the built tree is the
\* root's identifier and holds no " > ".
C10_RootBreadcrumb ==
  (session = "prompt" /\ current_node = root) =>
    /\ path = format_node_identifier(tree, root)
    /\ ~Contains(path, Separator)

\* C10 witness: the prompt shows the root again after cd ".." from a child
\* whose own identifier holds " > ".
C10_Witness ==
  /\ session = "prompt"
  /\ current_node = root
  /\ CdArgOf(last) = << <<".", ".">> >>
  /\ prev # root
  /\ Contains(format_node_identifier(tree, prev), Separator)

\* C11 (as claimed): for the document
\* <div class="a"><p>X</p><span class="b">Y</span></div>
\* extract_text_by_blocks returns exactly {"p": ["X"], "span": ["Y"]}, the div
\* contributing no entry.
C11_DivContributesNothing ==
  (blocks # <<>> /\ soup = ScenarioDocument) =>
    /\ DOMAIN blocks[1] = {<<"p">>, <<"s", "p", "a", "n">>}
    /\ blocks[1][<<"p">>] = << <<"X">> >>
    /\ blocks[1][<<"s", "p", "a", "n">>] = << <<"Y">> >>

\* C11 (amended): for that document extract_text_by_blocks returns exactly
\* {"div": ["XY"], "p": ["X"], "span": ["Y"]}: the div contributes the text
\* of the elements nested in it.
C11_DivContributesNestedText ==
  (blocks # <<>> /\ soup = ScenarioDocument) =>
    /\ DOMAIN blocks[1] = {<<"d", "i", "v">>, <<"p">>, <<"s", "p", "a", "n">>}
    /\ blocks[1][<<"d", "i", "v">>] = << <<"X", "Y">> >>
    /\ blocks[1][<<"p">>] = << <<"X">> >>
    /\ blocks[1][<<"s", "p", "a", "n">>] = << <<"Y">> >>

\* C11 witness: extract_text_by_blocks has run on that document.
C11_Witness ==
  /\ last.op = "extract_text_by_blocks"
  /\ soup = ScenarioDocument
  /\ blocks # <<>>

\* The elements of the document in document order, the document object first.
ElementsInOrder(doc) == <<1>> \o Descendants(doc, 1)

\* Whether some element above e has no name.
RECURSIVE BelowNameless(_, _)
BelowNameless(doc, e) ==
  \E q \in 1..Len(doc.kids) :
    /\ \E i \in 1..Len(doc.kids[q]) : doc.kids[q][i] = e
    /\ NameIsNone(doc.elem[q]) \/ BelowNameless(doc, q)

\* The tags of the nodes of the heap, in the order the nodes were built.
TagsBuilt(heap) == [i \in 1..Len(heap) |-> heap[i].tag]

\* The names of the elements es.
NamesOf(doc, es) == [i \in 1..Len(es) |-> doc.elem[es[i]].name]

TreeAsBuilt == build_tree(soup, 1, None, <<>>).heap

\* The session has left start().
SessionOver == session \notin {"idle", "prompt"}

\* C13: the session loop has no terminal state other than the exit command:
\* every other input line is followed by another prompt, the session is over
\* exactly when exit has been entered, and the tree is as it was built.
C13_OnlyExitEnds ==
  /\ (last.op = "input" /\ dispatch(last.arg).kind # "exit") => session = "prompt"
  /\ SessionOver <=> (last.op = "input" /\ dispatch(last.arg).kind = "exit")
  /\ tree = TreeAsBuilt

\* Node n is the last entry of its parent's children list.
IsFinalChild(heap, n) ==
  /\ heap[n].parent # None
  /\ LET siblings == heap[heap[n].parent].children
     IN siblings # <<>> /\ siblings[Len(siblings)] = n

\* The indents contributed by the ancestors of n, from the rendered node top
\* down to n's parent: blank for top and for an ancestor that is a final
\* sibling, continuation for an ancestor that is a non-final sibling.
RECURSIVE AncestorIndents(_, _, _)
AncestorIndents(heap, top, n) ==
  IF n = top THEN <<>>
  ELSE LET above == heap[n].parent
       IN AncestorIndents(heap, top, above)
            \o (IF above = top \/ IsFinalChild(heap, above)
                THEN BlankIndent ELSE ContinuationIndent)

FetchOver == fetch.pc \in {"returned", "raised", "propagated"}

\* What holds of the attempts at every moment of a fetch call.
FetchCounts ==
  /\ fetch.attempts <= fetch.max_retries
  /\ fetch.failures <= fetch.attempts
  /\ fetch.sleeps = (IF fetch.pc = "sleep" THEN fetch.failures - 1 ELSE fetch.failures)
  /\ fetch.slept = fetch.sleeps * fetch.retry_delay
  /\ fetch.pc = "returned" => fetch.failures = fetch.attempts - 1
  /\ fetch.pc = "raised" =>
       fetch.attempts = fetch.max_retries /\ fetch.failures = fetch.max_retries
  /\ (FetchOver /\ fetch.failures = fetch.max_retries) => fetch.pc = "raised"

\* C15: fetch makes at most max_retries page-load attempts; it returns at the
\* first attempt that succeeds and makes no attempt after it; it has waited
\* retry_delay after each failed attempt; it raises its failure exactly when
\* all max_retries attempts have failed (with no attempt when max_retries is
\* 0); and every call of fetch comes to an end.
C15_BoundedRetries ==
  /\ []FetchCounts
  /\ [][FetchOver => fetch' = fetch]_vars
  /\ <>FetchOver

\* C15 witness: fetch returned the page at its third attempt, after two
\* failed attempts and two waits.
C15_Witness ==
  /\ fetch.pc = "returned"
  /\ fetch.attempts = 3
  /\ fetch.failures = 2
  /\ fetch.sleeps = 2
  /\ fetch.slept = 2 * 2

====
